---- MODULE Spec2Model ----
(***************************************************************************)
(* Model of src/main.py: the mocked market data, the two mocked quote      *)
(* providers, the opportunity detection, the execution routine and the     *)
(* polling loop of main.                                                   *)
(*                                                                         *)
(* Numbers.  Python floats are modelled as exact fixed-point integers:     *)
(*   prices        in tenths of a USD             (170.0 USD  -> 1700)     *)
(*   quote factors in 1/10000                     (0.9995     -> 9995)     *)
(*   token amounts in base units, as in the code  (lamports, micro-USDC)   *)
(*   APYs          in 1/200                       (0.05       -> 10)       *)
(*   time          in whole seconds since _last_update, saturating         *)
(* int() is modelled as truncation of the exact quotient.  IEEE-754        *)
(* rounding (relative error 1e-16) is below the resolution of the model.   *)
(***************************************************************************)
EXTENDS Integers, Sequences, FiniteSets, TLC

VARIABLES
    prices,          \* MockMarketData._prices : mint -> price
    elapsed,         \* datetime.now() - MockMarketData._last_update
    sincePert,       \* history: time since the last perturbation of a mint
    lastGap,         \* history: time between the last two perturbations
    solana_address,  \* MockAgentWallet.solana_address
    pc,              \* position of main / of the call harness
    jupiter_quote,   \* identify_opportunity local
    raydium_quote,   \* identify_opportunity local
    usedPrice,       \* history: input price each provider's quote was built on
    apys,            \* check_yield_farming_opportunity locals
    opportunity,     \* main local / identify_opportunity return value
    ret,             \* return value of a call made by the harness
    log              \* calls made and lines printed in the current iteration

vars == <<prices, elapsed, sincePert, lastGap, solana_address, pc,
          jupiter_quote, raydium_quote, usedPrice, apys, opportunity, ret, log>>

----------------------------------------------------------------------------
(* Constants of the program *)

SOL_MINT == "So11111111111111111111111111111111111111112"
USDC_MINT == "EPjFWdd5AufqSSqeM2qN1xzybapC8G4wEGGkZwyTDt1v"
RAY_MINT == "4k3Dyjzvzp8eMZWunexHQvE5dfQqj5ihYiqg5wsNFgsw"
SOL_DECIMALS == 9
USDC_DECIMALS == 6

FACTOR_SCALE == 10000        \* factor unit of the model: 1/10000

BASE_SOL_PRICE == 1700       \* 170.0
BASE_USDC_PRICE == 10        \* 1.0
BASE_RAY_PRICE == 5          \* 0.5
UPDATE_SECONDS == 5          \* "> 5" in _simulate_fluctuation
SOL_CHANGE_PERMILLE == 1     \* max_percent_change = 0.001
OTHER_CHANGE_PERMILLE == 5   \* max_percent_change = 0.005
SLEEP_SECONDS == 10          \* asyncio.sleep(10)
SWAP_LAMPORTS == 100000000   \* int(0.1 * 10**9)
SWAP_SLIPPAGE_BPS == 100
BPS_SCALE == 10000
MIN_PROFIT_UNITS == 1000     \* 0.001 USDC in base units (0.001 * 10**6)
APY_THRESHOLD == 1           \* 0.005
APY_JUPITER == 10            \* 0.05
APY_RAYDIUM == 8             \* 0.04
APY_DEFAULT == 6             \* 0.03
APY_FLOOR == 2               \* 0.01
APY_FLUCT_LO == -2           \* -0.01
APY_FLUCT_HI == 4            \* 0.02
JUPITER_FACTOR_LO == 9990
JUPITER_FACTOR_HI == 9995
RAYDIUM_FACTOR_LO == 9996
RAYDIUM_FACTOR_HI == 10000

(* Bounds of the model *)
MaxDrift == 1                \* a price stays within MaxDrift of a start price
MaxClock == 6                \* the clock saturates here (> UPDATE_SECONDS)

None == "None"
UNKNOWN_MINT == "UnknownMint"
Mints == {SOL_MINT, USDC_MINT, RAY_MINT}
AnyMint == Mints \cup {UNKNOWN_MINT}
StartSolPrices == {1000, 1100, BASE_SOL_PRICE}
Amounts == {0, 123456789, SWAP_LAMPORTS}
Slippages == {0, 1, SWAP_SLIPPAGE_BPS, BPS_SCALE}
Addresses == {None, "", "WalletAddr"}

Min(a, b) == IF a < b THEN a ELSE b
Max(a, b) == IF a > b THEN a ELSE b
Abs(a) == IF a < 0 THEN -a ELSE a

RECURSIVE Pow10(_)
Pow10(n) == IF n = 0 THEN 1 ELSE 10 * Pow10(n - 1)

(* one doubling step: from h = <<q, r>> with a*(b \div 2) = q*c + r to the *)
(* pair for a*b *)
MulDivStep(h, a, b, c) ==
    LET carry == h[2] >= c - h[2]
        q2 == 2 * h[1] + (IF carry THEN 1 ELSE 0)
        r2 == IF carry THEN h[2] - (c - h[2]) ELSE 2 * h[2]
        qa == a \div c
        ra == a % c
    IN  IF b % 2 = 0 THEN <<q2, r2>>
        ELSE IF r2 >= c - ra THEN <<q2 + qa + 1, r2 - (c - ra)>>
        ELSE <<q2 + qa, r2 + ra>>

(* <<q, r>> with a*b = q*c + r and 0 <= r < c, without forming a*b *)
RECURSIVE MulDivQR(_, _, _)
MulDivQR(a, b, c) ==
    IF b = 0 THEN <<0, 0>>
    ELSE CHOOSE r \in {MulDivStep(h, a, b, c) : h \in {MulDivQR(a, b \div 2, c)}} : TRUE

MulDiv(a, b, c) == MulDivQR(a, b, c)[1]

----------------------------------------------------------------------------
(* MockMarketData *)

MarketData == [prices |-> prices, elapsed |-> elapsed,
               sincePert |-> sincePert, lastGap |-> lastGap]

FirstMint == SOL_MINT   \* list(self._prices.keys())[0]

InWindow(p) == \E b \in StartSolPrices : Abs(p - b) <= MaxDrift

(* the values random.uniform(-m, m) * current_price can take on the grid *)
Changes(md, mint, permille) ==
    IF md.elapsed > UPDATE_SECONDS
    THEN LET cur == md.prices[mint]
             m == (cur * permille) \div 1000
         IN  {c \in (0 - m)..m : mint = SOL_MINT => InWindow(cur + c)}
    ELSE {0}

SimulateFluctuation(md, mint, change) ==
    IF md.elapsed > UPDATE_SECONDS
    THEN [prices |-> [md.prices EXCEPT ![mint] = @ + change],
          elapsed |-> IF mint = FirstMint THEN 0 ELSE md.elapsed,
          sincePert |-> [md.sincePert EXCEPT ![mint] = 0],
          lastGap |-> [md.lastGap EXCEPT ![mint] = md.sincePert[mint]]]
    ELSE md

MaxChange(mint) ==
    IF mint = SOL_MINT THEN SOL_CHANGE_PERMILLE ELSE OTHER_CHANGE_PERMILLE

PriceChanges(md, mint) ==
    IF mint \in Mints \ {USDC_MINT} THEN Changes(md, mint, MaxChange(mint))
    ELSE {0}

(* get_price: the market data after the call and the price returned *)
GetPrice(md, mint, change) ==
    IF mint = USDC_MINT THEN [md |-> md, ret |-> md.prices[mint]]
    ELSE IF mint \in DOMAIN md.prices
    THEN LET after == SimulateFluctuation(md, mint, change)
         IN  [md |-> after, ret |-> after.prices[mint]]
    ELSE [md |-> md, ret |-> 0]

GetLiquidityPoolApy(exchange_name, pair, fluctuation) ==
    LET base_apy == IF exchange_name = "Jupiter" /\ pair = "SOL-USDC"
                    THEN APY_JUPITER
                    ELSE IF exchange_name = "Raydium" /\ pair = "SOL-USDC"
                    THEN APY_RAYDIUM
                    ELSE APY_DEFAULT
    IN  Max(APY_FLOOR, base_apy + fluctuation)

Fluctuations == APY_FLUCT_LO..APY_FLUCT_HI

----------------------------------------------------------------------------
(* MockJupiterAPI / MockRaydiumAPI *)

NoQuote == [type |-> None]

Present(quote) == quote.type # None     \* truthiness of a quote

FactorLo_Overlap(name) ==
    IF name = "Jupiter" THEN JUPITER_FACTOR_LO ELSE JUPITER_FACTOR_HI

FactorLo(name) ==
    IF name = "Jupiter" THEN JUPITER_FACTOR_LO ELSE RAYDIUM_FACTOR_LO

FactorHi(name) ==
    IF name = "Jupiter" THEN JUPITER_FACTOR_HI ELSE RAYDIUM_FACTOR_HI

(* the values random.uniform(lo, hi) can take on the grid *)
Factors(name) == FactorLo(name)..FactorHi(name)

(* int((amount / 10**SOL_DECIMALS * input_price * factor / output_price)   *)
(*     * 10**USDC_DECIMALS)                                                *)
OutAmount(amount, input_price, factor, output_price) ==
    MulDiv(amount, input_price * factor,
           (Pow10(SOL_DECIMALS) \div Pow10(USDC_DECIMALS)) * FACTOR_SCALE)
        \div output_price

MinOutAmount_AddsSlippage(out_amount, slippage_bps) ==
    (out_amount \div BPS_SCALE) * (BPS_SCALE + slippage_bps)
        + ((out_amount % BPS_SCALE) * (BPS_SCALE + slippage_bps)) \div BPS_SCALE

(* int(out_amount_base_units * (1 - slippage_bps / 10000)) *)
MinOutAmount(out_amount, slippage_bps) ==
    (out_amount \div BPS_SCALE) * (BPS_SCALE - slippage_bps)
        + ((out_amount % BPS_SCALE) * (BPS_SCALE - slippage_bps)) \div BPS_SCALE

(* get_quote that checks the output price only *)
GetQuote_OutputOnly(md, name, input_mint, output_mint, amount, slippage_bps, c1, c2, factor) ==
    LET p1 == GetPrice(md, input_mint, c1)
        p2 == GetPrice(p1.md, output_mint, c2)
        out == OutAmount(amount, p1.ret, factor, p2.ret)
    IN  IF p2.ret = 0
        THEN [md |-> p2.md, quote |-> NoQuote, used |-> p1.ret]
        ELSE [md |-> p2.md, used |-> p1.ret,
              quote |-> [type |-> "quote",
                         inputMint |-> input_mint,
                         inAmount |-> amount,
                         outputMint |-> output_mint,
                         outAmount |-> out,
                         otherAmountThreshold |-> MinOutAmount(out, slippage_bps),
                         swapMode |-> "ExactIn",
                         slippageBps |-> slippage_bps]]

(* get_quote: the market data after the call, the quote returned and the   *)
(* input price it was computed from; c1, c2 and factor are the random draws *)
GetQuote(md, name, input_mint, output_mint, amount, slippage_bps, c1, c2, factor) ==
    LET p1 == GetPrice(md, input_mint, c1)
        p2 == GetPrice(p1.md, output_mint, c2)
        out == OutAmount(amount, p1.ret, factor, p2.ret)
    IN  IF p1.ret = 0 \/ p2.ret = 0
        THEN [md |-> p2.md, quote |-> NoQuote, used |-> p1.ret]
        ELSE [md |-> p2.md, used |-> p1.ret,
              quote |-> [type |-> "quote",
                         inputMint |-> input_mint,
                         inAmount |-> amount,
                         outputMint |-> output_mint,
                         outAmount |-> out,
                         otherAmountThreshold |-> MinOutAmount(out, slippage_bps),
                         swapMode |-> "ExactIn",
                         slippageBps |-> slippage_bps]]

GetSwapTransaction(name) ==
    [swapTransaction |-> "mocked_base64_unsigned_transaction_from_" \o name]

----------------------------------------------------------------------------
(* Strategy logic *)

NoOpportunity == [type |-> None]

NoApys == [jupiter |-> 0, raydium |-> 0]

(* the comparison without the threshold *)
CheckYieldFarmingOpportunity_NoThreshold(jupiter_apy, raydium_apy) ==
    IF jupiter_apy > raydium_apy
    THEN [type |-> "yield_farming", pair |-> "SOL-USDC",
          exchange |-> "Jupiter", apy |-> jupiter_apy]
    ELSE IF raydium_apy > jupiter_apy
    THEN [type |-> "yield_farming", pair |-> "SOL-USDC",
          exchange |-> "Raydium", apy |-> raydium_apy]
    ELSE NoOpportunity

(* check_yield_farming_opportunity, after the two APYs were obtained *)
CheckYieldFarmingOpportunity(jupiter_apy, raydium_apy) ==
    IF jupiter_apy > raydium_apy + APY_THRESHOLD
    THEN [type |-> "yield_farming", pair |-> "SOL-USDC",
          exchange |-> "Jupiter", apy |-> jupiter_apy]
    ELSE IF raydium_apy > jupiter_apy + APY_THRESHOLD
    THEN [type |-> "yield_farming", pair |-> "SOL-USDC",
          exchange |-> "Raydium", apy |-> raydium_apy]
    ELSE NoOpportunity

(* the second branch naming the exchanges as the first does *)
ArbitrageOpportunity_SameSide(jq, rq) ==
    IF Present(jq) /\ Present(rq)
    THEN IF rq.outAmount > jq.outAmount + MIN_PROFIT_UNITS
         THEN [type |-> "arbitrage", inputMint |-> SOL_MINT,
               outputMint |-> USDC_MINT, amountIn |-> SWAP_LAMPORTS,
               buyExchange |-> "Jupiter", sellExchange |-> "Raydium",
               profitUsdc |-> rq.outAmount - jq.outAmount,
               buyQuote |-> jq, sellQuote |-> rq]
         ELSE IF jq.outAmount > rq.outAmount + MIN_PROFIT_UNITS
         THEN [type |-> "arbitrage", inputMint |-> SOL_MINT,
               outputMint |-> USDC_MINT, amountIn |-> SWAP_LAMPORTS,
               buyExchange |-> "Jupiter", sellExchange |-> "Raydium",
               profitUsdc |-> jq.outAmount - rq.outAmount,
               buyQuote |-> jq, sellQuote |-> rq]
         ELSE NoOpportunity
    ELSE NoOpportunity

(* identify_opportunity, the arbitrage comparison of the two quotes *)
ArbitrageOpportunity(jq, rq) ==
    IF Present(jq) /\ Present(rq)
    THEN IF rq.outAmount > jq.outAmount + MIN_PROFIT_UNITS
         THEN [type |-> "arbitrage", inputMint |-> SOL_MINT,
               outputMint |-> USDC_MINT, amountIn |-> SWAP_LAMPORTS,
               buyExchange |-> "Jupiter", sellExchange |-> "Raydium",
               profitUsdc |-> rq.outAmount - jq.outAmount,
               buyQuote |-> jq, sellQuote |-> rq]
         ELSE IF jq.outAmount > rq.outAmount + MIN_PROFIT_UNITS
         THEN [type |-> "arbitrage", inputMint |-> SOL_MINT,
               outputMint |-> USDC_MINT, amountIn |-> SWAP_LAMPORTS,
               buyExchange |-> "Raydium", sellExchange |-> "Jupiter",
               profitUsdc |-> jq.outAmount - rq.outAmount,
               buyQuote |-> rq, sellQuote |-> jq]
         ELSE NoOpportunity
    ELSE NoOpportunity

Truthy_NoneOnly(s) == s # None

Truthy(s) == s \notin {None, ""}

(* execute_strategy asking the provider of the buy side *)
ExecuteStrategy_BuySide(opp, address) ==
    <<"execute_strategy">> \o
    IF ~Truthy(address) THEN <<"[ERROR] address not found">>
    ELSE IF opp.type = "arbitrage"
    THEN <<"[EXECUTE] arbitrage">> \o
         (IF opp.buyExchange \in {"Jupiter", "Raydium"}
          THEN <<"get_swap_transaction " \o opp.buyExchange>> \o
               (IF GetSwapTransaction(opp.buyExchange).swapTransaction = ""
                THEN <<"[ERROR] no unsigned transaction">>
                ELSE <<"[MOCK] Transaction generated">>)
          ELSE <<"[ERROR] No valid exchange">>)
    ELSE IF opp.type = "yield_farming"
    THEN <<"[EXECUTE] Deploying capital", "[MOCK] Simulated capital deployment">>
    ELSE <<"[EXECUTE] Unknown opportunity type">>

(* execute_strategy: the calls made and the lines printed *)
ExecuteStrategy(opp, address) ==
    <<"execute_strategy">> \o
    IF ~Truthy(address) THEN <<"[ERROR] address not found">>
    ELSE IF opp.type = "arbitrage"
    THEN <<"[EXECUTE] arbitrage">> \o
         (IF opp.sellExchange \in {"Jupiter", "Raydium"}
          THEN <<"get_swap_transaction " \o opp.sellExchange>> \o
               (IF GetSwapTransaction(opp.sellExchange).swapTransaction = ""
                THEN <<"[ERROR] no unsigned transaction">>
                ELSE <<"[MOCK] Transaction generated">>)
          ELSE <<"[ERROR] No valid exchange">>)
    ELSE IF opp.type = "yield_farming"
    THEN <<"[EXECUTE] Deploying capital", "[MOCK] Simulated capital deployment">>
    ELSE <<"[EXECUTE] Unknown opportunity type">>

----------------------------------------------------------------------------
(* State after construction (main, lines 257-260) *)

NoRet == [kind |-> None]
Timed == {SOL_MINT, RAY_MINT}

Constructed(sol_price) ==
    /\ prices = [m \in Mints |-> IF m = SOL_MINT THEN sol_price
                                 ELSE IF m = USDC_MINT THEN BASE_USDC_PRICE
                                 ELSE BASE_RAY_PRICE]
    /\ elapsed = 0
    /\ sincePert = [m \in Timed |-> MaxClock]
    /\ lastGap = [m \in Timed |-> MaxClock]
    /\ jupiter_quote = NoQuote
    /\ raydium_quote = NoQuote
    /\ usedPrice = [Jupiter |-> 0, Raydium |-> 0]
    /\ apys = NoApys
    /\ opportunity = NoOpportunity
    /\ ret = NoRet
    /\ log = << >>

Init ==
    /\ Constructed(BASE_SOL_PRICE)
    /\ solana_address \in Addresses     \* _load_config: file or key may be absent
    /\ pc = "jupiter_quote"

SetMarket(md) ==
    /\ prices' = md.prices
    /\ elapsed' = md.elapsed
    /\ sincePert' = md.sincePert
    /\ lastGap' = md.lastGap

Advance(seconds) ==
    /\ elapsed' = Min(elapsed + seconds, MaxClock)
    /\ sincePert' = [m \in Timed |-> Min(sincePert[m] + seconds, MaxClock)]
    /\ UNCHANGED <<prices, lastGap>>

(* identify_opportunity, line 170 *)
QuoteJupiter(at, input_mint) ==
    /\ pc = at
    /\ \E c1 \in PriceChanges(MarketData, input_mint) :
       \E f \in Factors("Jupiter") :
       \E r \in {GetQuote(MarketData, "Jupiter", input_mint, USDC_MINT,
                          SWAP_LAMPORTS, SWAP_SLIPPAGE_BPS, c1, 0, f)} :
              /\ SetMarket(r.md)
              /\ jupiter_quote' = r.quote
              /\ usedPrice' = [Jupiter |-> r.used, Raydium |-> 0]
    /\ raydium_quote' = NoQuote
    /\ apys' = NoApys
    /\ opportunity' = NoOpportunity
    /\ ret' = NoRet
    /\ log' = <<"identify_opportunity", "get_quote Jupiter">>
    /\ pc' = "raydium_quote"
    /\ UNCHANGED solana_address

(* identify_opportunity, line 171 *)
QuoteRaydium(input_mint) ==
    /\ pc = "raydium_quote"
    /\ \E c1 \in PriceChanges(MarketData, input_mint) :
       \E f \in Factors("Raydium") :
       \E r \in {GetQuote(MarketData, "Raydium", input_mint, USDC_MINT,
                          SWAP_LAMPORTS, SWAP_SLIPPAGE_BPS, c1, 0, f)} :
              /\ SetMarket(r.md)
              /\ raydium_quote' = r.quote
              /\ usedPrice' = [usedPrice EXCEPT !.Raydium = r.used]
    /\ log' = Append(log, "get_quote Raydium")
    /\ pc' = "decide"
    /\ UNCHANGED <<solana_address, jupiter_quote, apys, opportunity, ret>>

JupiterQuote == QuoteJupiter("jupiter_quote", SOL_MINT)

RaydiumQuote == QuoteRaydium(SOL_MINT)

(* identify_opportunity, lines 173-204 *)
Decide ==
    /\ pc = "decide"
    /\ LET opp == ArbitrageOpportunity(jupiter_quote, raydium_quote)
       IN  IF opp.type = "arbitrage"
           THEN /\ opportunity' = opp
                /\ log' = log \o <<"[OPPORTUNITY] Arbitrage detected",
                                    "return identify_opportunity">>
                /\ pc' = "dispatch"
           ELSE /\ pc' = "yield"
                /\ UNCHANGED <<opportunity, log>>
    /\ UNCHANGED <<prices, elapsed, sincePert, lastGap, solana_address,
                   jupiter_quote, raydium_quote, usedPrice, apys, ret>>

(* identify_opportunity, lines 206-212, with check_yield_farming_opportunity *)
Yield ==
    /\ pc = "yield"
    /\ \E fj \in Fluctuations : \E fr \in Fluctuations :
          LET ja == GetLiquidityPoolApy("Jupiter", "SOL-USDC", fj)
              ra == GetLiquidityPoolApy("Raydium", "SOL-USDC", fr)
              opp == CheckYieldFarmingOpportunity(ja, ra)
          IN  /\ apys' = [jupiter |-> ja, raydium |-> ra]
              /\ opportunity' = opp
              /\ log' = log \o <<"check_yield_farming_opportunity">> \o
                        (IF opp.type = None
                         THEN <<"[OPPORTUNITY] No profitable opportunity">>
                         ELSE <<"[OPPORTUNITY] Yield Farming">>) \o
                        <<"return identify_opportunity">>
    /\ pc' = "dispatch"
    /\ UNCHANGED <<prices, elapsed, sincePert, lastGap, solana_address,
                   jupiter_quote, raydium_quote, usedPrice, ret>>

(* main calling execute_strategy whatever identify_opportunity returned *)
Dispatch_Always ==
    /\ pc = "dispatch"
    /\ log' = log \o ExecuteStrategy(opportunity, solana_address)
    /\ pc' = "sleep"
    /\ UNCHANGED <<prices, elapsed, sincePert, lastGap, solana_address,
                   jupiter_quote, raydium_quote, usedPrice, apys, opportunity, ret>>

(* main, lines 266-269 *)
Dispatch ==
    /\ pc = "dispatch"
    /\ log' = log \o (IF opportunity.type # None
                      THEN ExecuteStrategy(opportunity, solana_address)
                      ELSE <<"No opportunities found. Waiting...">>)
    /\ pc' = "sleep"
    /\ UNCHANGED <<prices, elapsed, sincePert, lastGap, solana_address,
                   jupiter_quote, raydium_quote, usedPrice, apys, opportunity, ret>>

(* main, line 272 and the jump back to line 263.  The values of the        *)
(* iteration are dead from here on (line 265 rebinds opportunity before    *)
(* any read), so they are dropped with the iteration.                      *)
Sleep ==
    /\ pc = "sleep"
    /\ Advance(SLEEP_SECONDS)
    /\ jupiter_quote' = NoQuote
    /\ raydium_quote' = NoQuote
    /\ usedPrice' = [Jupiter |-> 0, Raydium |-> 0]
    /\ apys' = NoApys
    /\ opportunity' = NoOpportunity
    /\ log' = << >>
    /\ pc' = "jupiter_quote"
    /\ UNCHANGED <<solana_address, ret>>

(* wall-clock time passing between two steps *)
Tick ==
    /\ Advance(1)
    /\ UNCHANGED <<solana_address, pc, jupiter_quote, raydium_quote,
                   usedPrice, apys, opportunity, ret, log>>

Step == JupiterQuote \/ RaydiumQuote \/ Decide \/ Yield \/ Dispatch \/ Sleep

Next == Step \/ Tick

Spec == Init /\ [][Next]_vars

(* the event loop runs every step of the single coroutine *)
FairSpec == Spec /\ WF_vars(Step)

----------------------------------------------------------------------------
(* Call harness: one function is called, with arguments drawn from small   *)
(* sets, on market data whose SOL price has drifted and at any time after  *)
(* construction.  get_price may be called repeatedly (PriceSpec).          *)

StubMints == {SOL_MINT, UNKNOWN_MINT}

UnitInit ==
    /\ \E p \in StartSolPrices : Constructed(p)
    /\ solana_address = None
    /\ pc = "idle"

ClearIdentify ==
    /\ jupiter_quote' = NoQuote
    /\ raydium_quote' = NoQuote
    /\ usedPrice' = [Jupiter |-> 0, Raydium |-> 0]
    /\ apys' = NoApys
    /\ opportunity' = NoOpportunity
    /\ log' = << >>

(* await market_data.get_price(mint) *)
CallGetPrice ==
    /\ pc = "idle"
    /\ log = << >>
    /\ \E mint \in AnyMint : \E c \in PriceChanges(MarketData, mint) :
       \E r \in {GetPrice(MarketData, mint, c)} :
              /\ SetMarket(r.md)
              /\ ret' = [kind |-> "price", mint |-> mint, value |-> r.ret,
                         before |-> prices]
    /\ ClearIdentify
    /\ UNCHANGED <<solana_address, pc>>

(* await api.get_quote(input_mint, output_mint, amount, slippage_bps) *)
CallGetQuote ==
    /\ pc = "idle"
    /\ log = << >>
    /\ ret.kind = None
    /\ \E name \in {"Jupiter", "Raydium"} :
       \E input_mint \in AnyMint : \E output_mint \in AnyMint :
       \E amount \in Amounts : \E slippage_bps \in Slippages :
       \E c1 \in PriceChanges(MarketData, input_mint) :
       \E c2 \in PriceChanges(GetPrice(MarketData, input_mint, c1).md, output_mint) :
       \E f \in {FactorLo(name), FactorHi(name)} :
       \E r \in {GetQuote(MarketData, name, input_mint, output_mint,
                          amount, slippage_bps, c1, c2, f)} :
              /\ SetMarket(r.md)
              /\ ret' = [kind |-> "quote", quote |-> r.quote,
                         amount |-> amount, slippage_bps |-> slippage_bps]
    /\ ClearIdentify
    /\ UNCHANGED <<solana_address, pc>>

(* identify_opportunity with each provider quoting a mint of the harness *)
StubJupiterQuote ==
    /\ ret.kind = None
    /\ log = << >>
    /\ \E m \in StubMints : QuoteJupiter("idle", m)

StubRaydiumQuote == \E m \in StubMints : QuoteRaydium(m)

UnitNext ==
    \/ CallGetQuote
    \/ StubJupiterQuote
    \/ StubRaydiumQuote
    \/ Decide
    \/ Yield
    \/ Tick

UnitSpec == UnitInit /\ [][UnitNext]_vars

PriceNext == CallGetPrice \/ Tick

PriceSpec == UnitInit /\ [][PriceNext]_vars

----------------------------------------------------------------------------
(* Properties *)

Has(e) == \E i \in DOMAIN log : log[i] = e

BothQuoted == Present(jupiter_quote) /\ Present(raydium_quote)

Decided == pc \in {"yield", "dispatch", "sleep"}

SwapCalls == {"get_swap_transaction Jupiter", "get_swap_transaction Raydium"}

ExecuteLines == {"[EXECUTE] arbitrage", "[EXECUTE] Deploying capital",
                 "[MOCK] Simulated capital deployment",
                 "[EXECUTE] Unknown opportunity type",
                 "[MOCK] Transaction generated"}

(* C1: once identify_opportunity has compared two present quotes with     *)
(* outputs J and R, it returned an arbitrage opportunity exactly when      *)
(* |R - J| exceeds the profit threshold, and then the sell side is the     *)
(* provider with the strictly larger output, the buy side is the other     *)
(* one, and profitUsdc is the larger output minus the smaller, above the   *)
(* threshold.                                                              *)
C1_PicksLargerOutput ==
    (Decided /\ BothQuoted) =>
        LET J == jupiter_quote.outAmount
            R == raydium_quote.outAmount
        IN  /\ (opportunity.type = "arbitrage") <=> (Abs(R - J) > MIN_PROFIT_UNITS)
            /\ opportunity.type = "arbitrage" =>
                  /\ opportunity.sellExchange = (IF R > J THEN "Raydium" ELSE "Jupiter")
                  /\ opportunity.buyExchange = (IF R > J THEN "Jupiter" ELSE "Raydium")
                  /\ opportunity.sellQuote = (IF R > J THEN raydium_quote ELSE jupiter_quote)
                  /\ opportunity.buyQuote = (IF R > J THEN jupiter_quote ELSE raydium_quote)
                  /\ opportunity.sellQuote.outAmount > opportunity.buyQuote.outAmount
                  /\ opportunity.profitUsdc = Max(R, J) - Min(R, J)
                  /\ opportunity.profitUsdc > MIN_PROFIT_UNITS

C1_Witness ==
    /\ pc = "dispatch"
    /\ opportunity.type = "arbitrage"
    /\ opportunity.sellExchange = "Jupiter"
    /\ jupiter_quote.outAmount > raydium_quote.outAmount

(* C2: once check_yield_farming_opportunity has returned, its result names *)
(* the exchange with the higher APY and carries that APY when the two APYs *)
(* differ by more than the threshold, and is None when they differ by at   *)
(* most the threshold; the two branch conditions never hold together.      *)
C2_PicksHigherApy ==
    (pc \in {"dispatch", "sleep"} /\ Has("check_yield_farming_opportunity")) =>
        LET ja == apys.jupiter
            ra == apys.raydium
        IN  /\ Abs(ja - ra) > APY_THRESHOLD =>
                  /\ opportunity.type = "yield_farming"
                  /\ opportunity.exchange = (IF ja > ra THEN "Jupiter" ELSE "Raydium")
                  /\ opportunity.apy = Max(ja, ra)
            /\ Abs(ja - ra) <= APY_THRESHOLD => opportunity.type = None
            /\ ~(ja > ra + APY_THRESHOLD /\ ra > ja + APY_THRESHOLD)

C2_Witness ==
    /\ pc = "dispatch"
    /\ Has("check_yield_farming_opportunity")
    /\ opportunity.type = "yield_farming"
    /\ opportunity.exchange = "Raydium"
    /\ apys.raydium > apys.jupiter + APY_THRESHOLD

(* C3: with the wallet address absent (None or empty), in every iteration  *)
(* execute_strategy prints the address error and returns: no provider's    *)
(* get_swap_transaction, no send_raw_transaction, no [EXECUTE] line and no *)
(* deployment line.                                                        *)
C3_MissingAddressPreventsExecution ==
    solana_address \in {None, ""} =>
        /\ \A i \in DOMAIN log :
              /\ log[i] \notin SwapCalls \cup ExecuteLines \cup {"send_raw_transaction"}
              /\ log[i] = "execute_strategy" =>
                    /\ i + 1 \in DOMAIN log => log[i + 1] = "[ERROR] address not found"
                    /\ i + 2 \notin DOMAIN log
        /\ (pc = "sleep" /\ opportunity.type # None) =>
              log[Len(log)] = "[ERROR] address not found"

C3_Witness ==
    /\ pc = "sleep"
    /\ solana_address = ""
    /\ opportunity.type = "arbitrage"
    /\ Has("execute_strategy")

(* C4, as stated: in no run of main is a provider's get_swap_transaction   *)
(* or the wallet's send_raw_transaction ever invoked.                      *)
C4_NothingBuilt ==
    \A i \in DOMAIN log : log[i] \notin SwapCalls \cup {"send_raw_transaction"}

(* C4, amended: nothing is signed or broadcast (send_raw_transaction is    *)
(* never invoked); an unsigned transaction is requested with               *)
(* get_swap_transaction only by an execution that has a wallet address and *)
(* an arbitrage opportunity, once, from the provider named sellExchange,   *)
(* and an arbitrage execution with an address always requests it.          *)
C4_OnlyUnsignedBuilt ==
    /\ ~Has("send_raw_transaction")
    /\ \A i \in DOMAIN log : log[i] \in SwapCalls =>
          /\ solana_address \notin {None, ""}
          /\ opportunity.type = "arbitrage"
          /\ log[i] = "get_swap_transaction " \o opportunity.sellExchange
          /\ \A j \in DOMAIN log : log[j] \in SwapCalls => j = i
    /\ (pc = "sleep" /\ opportunity.type = "arbitrage"
          /\ solana_address \notin {None, ""}) =>
          Has("get_swap_transaction " \o opportunity.sellExchange)

C4_Witness ==
    /\ pc = "sleep"
    /\ opportunity.type = "arbitrage"
    /\ opportunity.sellExchange = "Jupiter"
    /\ Has("get_swap_transaction Jupiter")

Before(a, b) ==
    \A i \in DOMAIN log : log[i] = b => \E j \in 1..(i - 1) : log[j] = a

C5_Order ==
    /\ log # << >> => log[1] = "identify_opportunity"
    /\ Before("return identify_opportunity", "execute_strategy")
    /\ Before("return identify_opportunity", "No opportunities found. Waiting...")
    /\ Has("execute_strategy") => pc = "sleep"
    /\ pc = "sleep" =>
          /\ Has("return identify_opportunity")
          /\ Has("execute_strategy") <=> opportunity.type # None
          /\ Has("No opportunities found. Waiting...") <=> opportunity.type = None
          /\ opportunity.type = None =>
                log[Len(log)] = "No opportunities found. Waiting..."

(* C5: main is one unbounded sequential loop: in every iteration           *)
(* identify_opportunity comes first, execute_strategy is called if and     *)
(* only if that call returned an opportunity (otherwise only the "none     *)
(* found" line is printed) and never before it returned; every iteration   *)
(* reaches its sleep and the loop always starts another iteration.         *)
C5_LoopThenSleep ==
    /\ []C5_Order
    /\ []<>(pc = "sleep")
    /\ []<>(pc = "jupiter_quote")

C5_Witness ==
    /\ pc = "sleep"
    /\ opportunity.type # None
    /\ Has("[ERROR] address not found")

(* C6: within one identify_opportunity call the yield-farming check is     *)
(* invoked if and only if no arbitrage opportunity is returned, which is   *)
(* exactly when a quote is absent or the two outputs differ by at most the *)
(* threshold; a quote is absent exactly when the price of its mint is 0    *)
(* (unknown), and an absent quote never yields an arbitrage opportunity.   *)
C6_ArbitrageFirst ==
    /\ pc \in {"decide", "yield", "dispatch"} =>
          /\ Present(jupiter_quote) <=> usedPrice.Jupiter # 0
          /\ Present(raydium_quote) <=> usedPrice.Raydium # 0
    /\ pc \in {"yield", "dispatch"} =>
          /\ (pc = "yield" \/ Has("check_yield_farming_opportunity"))
                <=> opportunity.type # "arbitrage"
          /\ opportunity.type # "arbitrage" <=>
                \/ ~Present(jupiter_quote)
                \/ ~Present(raydium_quote)
                \/ Abs(raydium_quote.outAmount - jupiter_quote.outAmount)
                      <= MIN_PROFIT_UNITS
          /\ ~BothQuoted => opportunity.type # "arbitrage"

C6_Witness ==
    /\ pc = "dispatch"
    /\ ~Present(jupiter_quote)
    /\ Present(raydium_quote)
    /\ Has("check_yield_farming_opportunity")

(* C7, as stated: more than 5 seconds lie between two successive           *)
(* perturbations of the same non-stable mint (SOL, RAY); the USDC price    *)
(* never changes; get_price of an unknown mint returns 0 and changes no    *)
(* stored price.                                                           *)
C7_OncePerWindow ==
    /\ \A m \in Timed : lastGap[m] > UPDATE_SECONDS
    /\ prices[USDC_MINT] = BASE_USDC_PRICE
    /\ (ret.kind = "price" /\ ret.mint = UNKNOWN_MINT) =>
          (ret.value = 0 /\ ret.before = prices)

(* C8, as stated: the SOL price behind the Jupiter quote equals the SOL    *)
(* price behind the Raydium quote of the same identify_opportunity call.   *)
C8_SamePriceInCycle ==
    (pc \in {"decide", "yield", "dispatch", "sleep"}) =>
        usedPrice.Jupiter = usedPrice.Raydium

SameHighPrice ==
    /\ BothQuoted
    /\ usedPrice.Jupiter = usedPrice.Raydium
    /\ usedPrice.Jupiter >= 1100

(* C9: when both quotes of one identify_opportunity call were computed     *)
(* from the same SOL price of at least 110 USD, the Raydium output exceeds *)
(* the Jupiter output by more than the threshold, the call returns an      *)
(* arbitrage opportunity selling on Raydium and buying on Jupiter, and the *)
(* yield-farming check is not reached.                                     *)
C9_RaydiumAlwaysWins ==
    (pc \in {"decide", "yield", "dispatch"} /\ SameHighPrice) =>
        /\ raydium_quote.outAmount > jupiter_quote.outAmount + MIN_PROFIT_UNITS
        /\ pc # "yield"
        /\ ~Has("check_yield_farming_opportunity")
        /\ pc = "dispatch" =>
              /\ opportunity.type = "arbitrage"
              /\ opportunity.sellExchange = "Raydium"
              /\ opportunity.buyExchange = "Jupiter"

C9_Witness ==
    /\ pc = "dispatch"
    /\ SameHighPrice
    /\ usedPrice.Jupiter = 1100
    /\ opportunity.type = "arbitrage"

(* C10: a quote returned by get_quote for amount >= 0 and slippage_bps in  *)
(* 0..10000 has 0 <= otherAmountThreshold <= outAmount, with               *)
(* otherAmountThreshold the truncation of outAmount * (1 - bps/10000)      *)
(* (outAmount itself for 0 bps, 0 for 10000 bps), and inAmount is the      *)
(* requested amount.                                                       *)
C10_SlippageBounds ==
    (ret.kind = "quote" /\ Present(ret.quote)) =>
        LET q == ret.quote
        IN  /\ 0 <= q.otherAmountThreshold
            /\ q.otherAmountThreshold <= q.outAmount
            /\ q.otherAmountThreshold
                  = MulDiv(q.outAmount, BPS_SCALE - ret.slippage_bps, BPS_SCALE)
            /\ ret.slippage_bps = 0 => q.otherAmountThreshold = q.outAmount
            /\ ret.slippage_bps = BPS_SCALE => q.otherAmountThreshold = 0
            /\ q.inAmount = ret.amount
            /\ q.slippageBps = ret.slippage_bps

C10_Witness ==
    /\ ret.kind = "quote"
    /\ Present(ret.quote)
    /\ ret.slippage_bps = 1
    /\ ret.quote.outAmount > 0
    /\ ret.quote.otherAmountThreshold < ret.quote.outAmount
    /\ ret.quote.otherAmountThreshold > 0

====
